---- MODULE Spec2Model ----
(***************************************************************************)
(* A model of scavenge.py: the reference graph of the uncollected objects  *)
(* is separated into unconnected graphs (separate), every graph is         *)
(* simplified and ranked (explore_cycles.__init__), and the result is      *)
(* explored through the commands of explore_cycles (a cmd.Cmd).            *)
(*                                                                         *)
(* Objects are numbers (their id()).  An optional value (a __dict__ that   *)
(* may be absent, a traceback that may be None) is a set of at most one    *)
(* element.  A Python dict is a record of its keys in insertion order and  *)
(* the function from keys to values.  What fmtref can see of an object is  *)
(* its shape: the items, elements, members and attributes it enumerates.   *)
(***************************************************************************)
EXTENDS Integers, Sequences, FiniteSets, TLC

\* ------------------------------------------------------------- bounds
\* objects of the heap in the general specification
NumObjects == 3
\* weight of a heap: references + attribute tables + bytes above one per
\* object + objects that are not garbage
MaxHeap == 3
\* frames of a captured traceback (the tracing depth, -X tracemalloc=N)
MaxDepth == 3
\* line numbers of the traced program
MaxLine == 2
\* bytes of an object of the end-to-end scenario
MaxSize == 2

\* ------------------------------------------------------------- values
Objects == 1..NumObjects

\* the dict of the builtins module, which is no object of the heap modelled
Builtins == 0

\* the text of varnames: 26 letters, a letter is its position 1..26
Alphabet == 26

\* the key '__builtins__' (a name not made of the letters a..z)
BuiltinsName == <<0>>

\* __file__ and the path of the traced program
ToolFile == "scavenge.py"
ProgFile == "program.py"

\* the line of exec(code), the frame of the tool below every traced frame
ExecLine == 185

Frames == {[path |-> ToolFile, line |-> ExecLine]}
            \cup {[path |-> ProgFile, line |-> l] : l \in 1..MaxLine}

RECURSIVE SeqsUpTo(_, _)
SeqsUpTo(S, n) ==
  IF n = 0 THEN {<<>>}
  ELSE LET shorter == SeqsUpTo(S, n - 1)
       IN  shorter \cup {Append(s, x) : s \in {t \in shorter : Len(t) = n - 1}, x \in S}

Range(s) == {s[i] : i \in DOMAIN s}

\* the orders in which the elements of a set may be iterated
Perms(S) == {s \in [1..Cardinality(S) -> S] : Range(s) = S}

\* the subsequence of s of the elements in S
RECURSIVE Restrict(_, _)
Restrict(s, S) ==
  IF s = <<>> THEN <<>>
  ELSE IF Head(s) \in S THEN <<Head(s)>> \o Restrict(Tail(s), S)
       ELSE Restrict(Tail(s), S)

RECURSIVE SumOver(_, _)
SumOver(f, S) ==
  IF S = {} THEN 0
  ELSE LET x == CHOOSE y \in S : TRUE IN f[x] + SumOver(f, S \ {x})

EmptyDict == [keys |-> <<>>, vals |-> <<>>]

\* the elements of a set of numbers in ascending order
RECURSIVE Ascending(_)
Ascending(S) ==
  IF S = {} THEN <<>>
  ELSE LET m == CHOOSE x \in S : \A y \in S : x <= y IN <<m>> \o Ascending(S \ {m})

\* ------------------------------------------------------------- state
VARIABLES
  \* the heap the tool is started on (what gc, sys and tracemalloc report)
  gcGarbage,   \* gc.garbage after gc.collect()
  referents,   \* gc.get_referents
  sizeof,      \* sys.getsizeof
  dictOf,      \* getattr(obj, '__dict__', None) when it is a dict
  tbOf,        \* tracemalloc._get_object_traceback
  shapeOf,     \* what isinstance, items(), iteration, dir and getattr show
  \* explore_cycles.__init__ and separate
  pc,          \* "init", "separate", "simplify", "cmdloop", "done", "raised"
  garbage,     \* the set garbage
  refs,        \* the argument of separate
  pending,     \* the entries of refs.items() not yet iterated
  rootmap,
  union,
  nroots,      \* the roots created so far: object() is root nroots + 1
  separated,   \* the list separate returned
  idx,         \* the position of the for loop over that list
  phase,       \* "size", "collapse", "prune": the place inside the loop body
  size,
  cycle,
  pos,         \* the position of the for loop over cycle.items()
  \* the session
  cycles,      \* self.cycles
  selection,   \* self.selection
  locals,      \* self.locals
  out          \* what that command printed

heapvars == <<gcGarbage, referents, sizeof, dictOf, tbOf, shapeOf>>
sepvars == <<garbage, refs, pending, rootmap, union, nroots, separated>>
simpvars == <<idx, phase, size, cycle, pos>>
sessvars == <<cycles, selection, locals, out>>
vars == <<gcGarbage, referents, sizeof, dictOf, tbOf, shapeOf, pc, garbage, refs, pending,
          rootmap, union, nroots, separated, idx, phase, size, cycle, pos,
          cycles, selection, locals, out>>

\* ------------------------------------------------------------- separate
\* a slip: the referents are not intersected with the garbage
BuildRefsOfAll(g, r) == [item \in g |-> r[item]]

\* line 80: the graph restricted to the garbage
BuildRefs(g, r) == [item \in g |-> g \cap r[item]]

\* a slip: the root of one item is looked up, not the roots of all of them
RootsOfKeyOnly(items, rm) == {rm[item] : item \in {i \in items \cap DOMAIN rm : \A j \in items : i <= j}}

\* line 50-52
Items(key, vals) == {key} \cup vals
Roots(items, rm) == {rm[item] : item \in items \cap DOMAIN rm}

\* a slip: the members of the removed roots are dropped
MergedItemsDropped(items, roots, root, un) == items

\* line 55-56: the members of the removed roots join items
MergedItems(items, roots, root, un) ==
  items \cup UNION {un[r] : r \in roots \ {root}}

\* line 55-57: union after the removed roots are popped and root is updated
MergedUnion(items, roots, root, un) ==
  [r \in DOMAIN un \ (roots \ {root}) |->
     IF r = root THEN un[r] \cup MergedItems(items, roots, root, un) ELSE un[r]]

\* line 59-60
FreshUnion(items, root, un) ==
  [r \in DOMAIN un \cup {root} |-> IF r = root THEN items ELSE un[r]]

\* line 61-62
Remap(items, root, rm) ==
  [item \in DOMAIN rm \cup items |-> IF item \in items THEN root ELSE rm[item]]

\* the values of union in insertion order: roots are numbered as created
RECURSIVE UnionValues(_, _)
UnionValues(un, from) ==
  IF \A r \in DOMAIN un : r < from THEN <<>>
  ELSE IF from \in DOMAIN un THEN <<un[from]>> \o UnionValues(un, from + 1)
       ELSE UnionValues(un, from + 1)

\* line 63: {key: refs[key] for key in s}, s iterated in the order ord
SubDict(r, s, ord) ==
  LET ks == Restrict(ord, s)
  IN  [keys |-> ks, vals |-> [k \in Range(ks) |-> r[k]]]

Materialize(r, un, ord) ==
  LET vs == UnionValues(un, 1)
  IN  [i \in 1..Len(vs) |-> SubDict(r, vs[i], ord)]

\* ------------------------------------------------------------- actions
\* lines 74-80: collect, report, return when nothing is found, else call separate
Collect ==
  /\ pc = "init"
  /\ garbage' = gcGarbage
  /\ IF gcGarbage = {}
       THEN /\ pc' = "done"
            /\ refs' = refs
            /\ pending' = pending
       ELSE /\ pc' = "separate"
            /\ refs' = BuildRefs(gcGarbage, referents)
            /\ pending' = gcGarbage
  /\ UNCHANGED <<rootmap, union, nroots, separated>>
  /\ UNCHANGED <<heapvars, simpvars, sessvars>>

\* lines 49-62: one iteration of the loop over refs.items()
SeparateEntry ==
  /\ pc = "separate"
  /\ \E key \in pending :
       LET items == Items(key, refs[key])
           roots == Roots(items, rootmap)
       IN  /\ pending' = pending \ {key}
           /\ IF roots # {}
                THEN \E root \in roots :
                       /\ union' = MergedUnion(items, roots, root, union)
                       /\ rootmap' = Remap(MergedItems(items, roots, root, union), root, rootmap)
                       /\ nroots' = nroots
                ELSE /\ union' = FreshUnion(items, nroots + 1, union)
                     /\ rootmap' = Remap(items, nroots + 1, rootmap)
                     /\ nroots' = nroots + 1
  /\ UNCHANGED <<pc, garbage, refs, separated>>
  /\ UNCHANGED <<heapvars, simpvars, sessvars>>

\* line 63: the list of sub-mappings, each set iterated in some order
Emit ==
  /\ pc = "separate"
  /\ pending = {}
  /\ \E ord \in Perms(garbage) : separated' = Materialize(refs, union, ord)
  /\ pc' = "simplify"
  /\ idx' = 1
  /\ phase' = "size"
  /\ UNCHANGED <<garbage, refs, pending, rootmap, union, nroots>>
  /\ UNCHANGED <<size, cycle, pos>>
  /\ UNCHANGED <<heapvars, sessvars>>

\* ------------------------------------------------------------- simplify
\* a slip: the members are counted, not their sizes added
SizeOfCount(c, sz) == Len(c.keys)

\* line 81
SizeOf(c, sz) == SumOver(sz, Range(c.keys))

\* a slip: the references of the other items are not looked at
CollapsibleWhenShared(c, item, ref) == ref \in c.vals[item]

\* line 87: ref is referenced by item and by no other item of the cycle
Collapsible(c, item, ref) ==
  /\ ref \in c.vals[item]
  /\ ~ \E otheritem \in Range(c.keys) : otheritem # item /\ ref \in c.vals[otheritem]

\* a slip: the references of the table replace those of the item
CollapsedOntoTable(c, item, ref) ==
  LET first == [c.vals EXCEPT ![item] = c.vals[ref]]
  IN  [c EXCEPT !.vals = [first EXCEPT ![ref] = {}]]

\* lines 88-89: two assignments, in this order
Collapsed(c, item, ref) ==
  LET first == [c.vals EXCEPT ![item] = c.vals[ref] \cup (c.vals[item] \ {ref})]
  IN  [c EXCEPT !.vals = [first EXCEPT ![ref] = {}]]

\* lines 84-89: the body of the loop for one item, d its __dict__ if it is a dict
CollapseItem(c, item, d) ==
  IF d = {} THEN c
  ELSE LET ref == CHOOSE r \in d : TRUE
       IN  IF Collapsible(c, item, ref) THEN Collapsed(c, item, ref) ELSE c

\* a slip: the items that no item references are removed as well
RemovableOrUnreferenced(c) ==
  {item \in Range(c.keys) :
     c.vals[item] = {} \/ \A other \in Range(c.keys) : item \notin c.vals[other]}

\* line 92
Removable(c) == {item \in Range(c.keys) : c.vals[item] = {}}

\* a slip: the removed items stay in the sets of the others
PrunedKeysOnly(c, remove) ==
  LET ks == Restrict(c.keys, Range(c.keys) \ remove)
  IN  [keys |-> ks, vals |-> [k \in Range(ks) |-> c.vals[k]]]

\* line 95
Pruned(c, remove) ==
  LET ks == Restrict(c.keys, Range(c.keys) \ remove)
  IN  [keys |-> ks, vals |-> [k \in Range(ks) |-> c.vals[k] \ remove]]

\* a slip: the size is that of the members that are left
EntryOfSizeLeft(sz, c, i) == [size |-> SizeOf(c, sizeof), cycle |-> c, origin |-> i]

\* line 96: the tuple appended; origin is the index of the component in the
\* list separate returned (a history field, read by no operation)
Entry(sz, c, i) == [size |-> sz, cycle |-> c, origin |-> i]

\* a slip: the number of members is left out of the key
SortKeySizeOnly(v) == <<v.size, 0>>

\* line 97: the key of the sort
SortKey(v) == <<v.size, Len(v.cycle.keys)>>

\* comparison of two keys as tuples
KeyLess(a, b) == a[1] < b[1] \/ (a[1] = b[1] /\ a[2] < b[2])

\* list.sort is stable: v goes behind every entry whose key is not greater
RECURSIVE Insert(_, _)
Insert(sorted, v) ==
  IF sorted = <<>> THEN <<v>>
  ELSE IF KeyLess(SortKey(v), SortKey(Head(sorted))) THEN <<v>> \o sorted
       ELSE <<Head(sorted)>> \o Insert(Tail(sorted), v)

RECURSIVE Sorted(_)
Sorted(cs) ==
  IF cs = <<>> THEN <<>>
  ELSE Insert(Sorted(SubSeq(cs, 1, Len(cs) - 1)), cs[Len(cs)])

\* ------------------------------------------------------------- list
\* lines 106-108: varnames is squared until it is long enough; the result is
\* the number of letters of every name
RECURSIVE NameWidth(_, _, _)
NameWidth(n, width, count) ==
  IF count < n THEN NameWidth(n, 2 * width, count * count) ELSE width

RECURSIVE Power(_, _)
Power(b, e) == IF e = 0 THEN 1 ELSE b * Power(b, e - 1)

\* a slip: the names are put together as b+a
RECURSIVE NameAtSwapped(_, _)
NameAtSwapped(width, i) ==
  IF width = 1 THEN <<i + 1>>
  ELSE LET half == width \div 2
           count == Power(Alphabet, half)
       IN  NameAtSwapped(half, i % count) \o NameAtSwapped(half, i \div count)

\* the name at index i (from 0) of varnames when its names have width letters:
\* [a+b for a in varnames for b in varnames] puts a+b at index ia * len + ib
RECURSIVE NameAt(_, _)
NameAt(width, i) ==
  IF width = 1 THEN <<i + 1>>
  ELSE LET half == width \div 2
           count == Power(Alphabet, half)
       IN  NameAt(half, i \div count) \o NameAt(half, i % count)

\* line 109: varmap = dict(zip(cycle, varnames)), as the sequence of names of
\* the keys of cycle
VarMap(c) ==
  LET width == NameWidth(Len(c.keys), 1, Alphabet)
  IN  [j \in 1..Len(c.keys) |-> NameAt(width, j - 1)]

\* line 113: {var: item.obj for item, var in varmap.items()}; a later item
\* replaces an earlier one of the same name
Locals(c) ==
  LET names == VarMap(c)
      last(nm) == CHOOSE j \in DOMAIN names :
                    names[j] = nm /\ \A k \in DOMAIN names : names[k] = nm => k <= j
  IN  [keys |-> names, vals |-> [nm \in Range(names) |-> c.keys[last(nm)]]]

\* ------------------------------------------------------------- fmtref
\* an object that is no suspect, as a key, a value, an element or a member
Outside == Builtins

\* a key of a mapping: the object it is and how '%r' % key treats it: "plain"
\* (its repr, without braces), "brace" (its repr, with a brace), "single" (a
\* tuple of one element: the repr of the element), "pair" (any other tuple:
\* a TypeError)
KeyKinds == {"plain", "brace", "single", "pair"}

Key(is, kind) == [is |-> is, kind |-> kind]

Item(key, value) == [key |-> key, value |-> value]

\* what fmtref sees of an object: whether it is a Mapping, a Sequence, a Set
\* (each a container with something in it), its items() and its elements in
\* order, its members, and for every name of dir(), in that order, the value
\* getattr returns, none where getattr raises
Shape(items, elems, members, attrs) ==
  [mapping |-> items # <<>>, items |-> items,
   sequence |-> elems # <<>>, elems |-> elems,
   setlike |-> members # {}, members |-> members,
   attrs |-> attrs]

\* a format string: its form, the position it names (the item whose key is
\* interpolated, the index, the attribute) and the text interpolated for a key
Phrase(form, n, text) == [form |-> form, n |-> n, text |-> text]

\* line 111: '{obj:} -> {ref:}'
Arrow == Phrase("arrow", 0, "")

\* how a probe ends: with a return, with an exception, or with nothing found
Returned(p) == [done |-> TRUE, found |-> {p}]
Raised == [done |-> TRUE, found |-> {}]
Passed == [done |-> FALSE, found |-> {}]

\* line 24: the text '%r' % key puts into the format string
KeyText(key) ==
  IF key.kind = "single" THEN "element"
  ELSE IF key.kind = "brace" THEN "brace" ELSE "key"

\* lines 22-26: the loop over obj.items(), from item i
RECURSIVE ProbeMapping(_, _, _)
ProbeMapping(items, i, ref) ==
  IF i > Len(items) THEN Passed
  ELSE IF items[i].value = ref
    THEN IF items[i].key.kind = "pair" THEN Raised
         ELSE Returned(Phrase("key", i, KeyText(items[i].key)))
  ELSE IF items[i].key.is = ref THEN Returned(Phrase("keyonly", 0, ""))
  ELSE ProbeMapping(items, i + 1, ref)

\* lines 28-30: the loop over enumerate(obj); the index is counted from 0
RECURSIVE ProbeSequence(_, _, _)
ProbeSequence(elems, i, ref) ==
  IF i > Len(elems) THEN Passed
  ELSE IF elems[i] = ref THEN Returned(Phrase("index", i - 1, ""))
  ELSE ProbeSequence(elems, i + 1, ref)

\* lines 32-33
ProbeSet(members, ref) ==
  IF ref \in members THEN Returned(Phrase("member", 0, "")) ELSE Passed

\* lines 34-36: the loop over dir(obj), from name i
RECURSIVE ProbeAttrs(_, _, _)
ProbeAttrs(attrs, i, ref) ==
  IF i > Len(attrs) THEN Passed
  ELSE IF attrs[i] = {} THEN Raised
  ELSE IF attrs[i] = {ref} THEN Returned(Phrase("attr", i, ""))
  ELSE ProbeAttrs(attrs, i + 1, ref)

\* lines 20-38: the format string returned, none when the end of the function
\* is reached or an exception is swallowed
FmtRef(obj, ref) ==
  LET m == IF obj.mapping THEN ProbeMapping(obj.items, 1, ref) ELSE Passed
      s == IF obj.sequence THEN ProbeSequence(obj.elems, 1, ref) ELSE Passed
      t == IF obj.setlike THEN ProbeSet(obj.members, ref) ELSE Passed
      a == ProbeAttrs(obj.attrs, 1, ref)
  IN  IF m.done THEN m.found
      ELSE IF s.done THEN s.found
      ELSE IF t.done THEN t.found
      ELSE a.found

\* line 111: fmtref(item.obj, ref.obj) or '{obj:} -> {ref:}'
Template(obj, ref) ==
  IF FmtRef(obj, ref) = {} THEN Arrow ELSE CHOOSE p \in FmtRef(obj, ref) : TRUE

\* line 111: str.format raises on a brace that the key brought into the string
FormatRaises(template) == template.text = "brace"

\* line 111: varmap[item]
NameOf(c, item) == VarMap(c)[CHOOSE j \in DOMAIN c.keys : c.keys[j] = item]

\* the references of a cycle as pairs (item, ref)
References(c) == UNION {{<<item, ref>> : ref \in c.vals[item]} : item \in Range(c.keys)}

\* lines 110-112: some reference of the cycle makes line 111 raise
ListRaises(c) ==
  \E p \in References(c) : FormatRaises(Template(shapeOf[p[1]], p[2]))

\* lines 110-112: what is printed about every reference of the cycle
Lines(c) ==
  [p \in References(c) |->
     [obj |-> NameOf(c, p[1]), ref |-> NameOf(c, p[2]),
      phrase |-> Template(shapeOf[p[1]], p[2])]]

\* what a command printed: its kind, the frames of a traceback, whether the
\* line '  ...' follows them, and the objects shown
Output(kind, frames, dots, objs) ==
  [kind |-> kind, frames |-> frames, dots |-> dots, objs |-> objs]

NoOutput == Output("", <<>>, FALSE, {})

\* an exception that leaves the command loop
Failed == Output("raised", <<>>, FALSE, {})

\* lines 103-112: what list prints about the selection
Listed(cs, sel) ==
  [kind |-> "list", frames |-> <<>>, dots |-> FALSE,
   objs |-> Range(cs[sel + 1].cycle.keys), lines |-> Lines(cs[sel + 1].cycle)]

\* ------------------------------------------------------------- __init__
\* line 81: the size of the next cycle of the list
BeginCycle ==
  /\ pc = "simplify"
  /\ phase = "size"
  /\ idx <= Len(separated)
  /\ size' = SizeOf(separated[idx], sizeof)
  /\ cycle' = separated[idx]
  /\ pos' = 1
  /\ phase' = "collapse"
  /\ UNCHANGED <<pc, idx>>
  /\ UNCHANGED <<heapvars, sepvars, sessvars>>

\* lines 83-89: one iteration of the loop over cycle.items()
CollapseVisit ==
  /\ pc = "simplify"
  /\ phase = "collapse"
  /\ cycle' = CollapseItem(cycle, cycle.keys[pos], dictOf[cycle.keys[pos]])
  /\ pos' = pos + 1
  /\ phase' = IF pos = Len(cycle.keys) THEN "prune" ELSE "collapse"
  /\ UNCHANGED <<pc, idx, size>>
  /\ UNCHANGED <<heapvars, sepvars, sessvars>>

\* lines 91-96: one iteration of the while loop; its break appends the cycle
PruneRound ==
  /\ pc = "simplify"
  /\ phase = "prune"
  /\ IF Removable(cycle) = {}
       THEN /\ cycles' = Append(cycles, Entry(size, cycle, idx))
            /\ idx' = idx + 1
            /\ phase' = "size"
            /\ cycle' = cycle
       ELSE /\ cycle' = Pruned(cycle, Removable(cycle))
            /\ UNCHANGED <<cycles, idx, phase>>
  /\ UNCHANGED <<pc, size, pos>>
  /\ UNCHANGED <<selection, locals, out>>
  /\ UNCHANGED <<heapvars, sepvars>>

\* lines 97-100: sort, select the first cycle, list it, enter the command loop;
\* an exception of line 111 leaves __init__ before line 113
Rank ==
  /\ pc = "simplify"
  /\ phase = "size"
  /\ idx > Len(separated)
  /\ cycles' = Sorted(cycles)
  /\ selection' = 0
  /\ IF ListRaises(Sorted(cycles)[1].cycle)
       THEN /\ pc' = "raised"
            /\ locals' = locals
            /\ out' = Failed
       ELSE /\ pc' = "cmdloop"
            /\ locals' = Locals(Sorted(cycles)[1].cycle)
            /\ out' = Listed(Sorted(cycles), 0)
  /\ UNCHANGED <<heapvars, sepvars, simpvars>>

\* ------------------------------------------------------------- print
\* eval(arg, self.locals) puts the builtins under '__builtins__' into the dict
\* it is given, unless the key is there, before it compiles arg
WithBuiltins(l) ==
  IF BuiltinsName \in Range(l.keys) THEN l
  ELSE [keys |-> Append(l.keys, BuiltinsName),
        vals |-> [nm \in Range(l.keys) \cup {BuiltinsName} |->
                    IF nm = BuiltinsName THEN Builtins ELSE l.vals[nm]]]

\* lines 130-135: arg is the names on the command line; one name is an
\* expression, its value the object bound to it, and a name bound to nothing is
\* a NameError; no name or several names are a SyntaxError
Evaluated(arg, l) ==
  IF Len(arg) = 1 /\ arg[1] \in Range(WithBuiltins(l).keys)
    THEN Output("print", <<>>, FALSE, {WithBuiltins(l).vals[arg[1]]})
    ELSE Output("error", <<>>, FALSE, {})

\* ------------------------------------------------------------- traceback
\* line 138: self.locals.get(name) for the names given, or for every key
Targets(arg, l) ==
  LET names == IF arg # <<>> THEN arg ELSE l.keys
  IN  [i \in 1..Len(names) |->
         IF names[i] \in Range(l.keys) THEN {l.vals[names[i]]} ELSE {}]

\* lines 147-150: the index (from 1) of the first frame of the tool, 0 if none
RECURSIVE ToolIndex(_, _)
ToolIndex(tb, i) ==
  IF i > Len(tb) THEN 0
  ELSE IF tb[i].path = ToolFile THEN i
       ELSE ToolIndex(tb, i + 1)

\* line 149: tb[:i]
Truncated(tb) == SubSeq(tb, 1, ToolIndex(tb, 1) - 1)

\* lines 144-152: the list complete after the loop over the tracebacks
RECURSIVE Complete(_)
Complete(tbs) ==
  IF tbs = <<>> THEN <<>>
  ELSE LET rest == Complete(Tail(tbs))
       IN  IF Head(tbs) = {} THEN rest
           ELSE LET tb == CHOOSE t \in Head(tbs) : TRUE
                IN  IF ToolIndex(tb, 1) # 0 THEN <<Truncated(tb)>> \o rest ELSE rest

\* lines 144-152: the list incomplete after the loop
RECURSIVE Incomplete(_)
Incomplete(tbs) ==
  IF tbs = <<>> THEN <<>>
  ELSE LET rest == Incomplete(Tail(tbs))
       IN  IF Head(tbs) = {} THEN rest
           ELSE LET tb == CHOOSE t \in Head(tbs) : TRUE
                IN  IF ToolIndex(tb, 1) = 0 THEN <<tb>> \o rest ELSE rest

\* line 154: min(complete, key=len), the first of the shortest
Shortest(complete) ==
  LET i == CHOOSE j \in DOMAIN complete :
             /\ \A k \in DOMAIN complete : Len(complete[j]) <= Len(complete[k])
             /\ \A k \in DOMAIN complete : Len(complete[k]) = Len(complete[j]) => j <= k
  IN  complete[i]

\* a slip: the leading frames are compared, not the trailing ones
DiffersAtStart(complete, common) ==
  \E i \in DOMAIN complete : SubSeq(complete[i], 1, Len(common)) # common

\* line 155: tb[len(tb)-len(common):] != common for some tb
Differs(complete, common) ==
  \E i \in DOMAIN complete :
    SubSeq(complete[i], Len(complete[i]) - Len(common) + 1, Len(complete[i])) # common

\* lines 155-156
RECURSIVE Trimmed(_, _)
Trimmed(complete, common) ==
  IF common # <<>> /\ Differs(complete, common)
    THEN Trimmed(complete, Tail(common))
    ELSE common

\* a slip: the incomplete tracebacks are looked at first
ReconciledIncompleteFirst(complete, incomplete) ==
  IF Len(incomplete) > 1 THEN Output("cannot", <<>>, FALSE, {})
  ELSE IF incomplete # <<>> THEN Output("single", incomplete[1], TRUE, {})
  ELSE IF complete # <<>> THEN Output("common", Trimmed(complete, Shortest(complete)), FALSE, {})
  ELSE Output("notfound", <<>>, FALSE, {})

\* lines 153-164
Reconciled(complete, incomplete) ==
  IF complete # <<>> THEN Output("common", Trimmed(complete, Shortest(complete)), FALSE, {})
  ELSE IF Len(incomplete) > 1 THEN Output("cannot", <<>>, FALSE, {})
  ELSE IF incomplete # <<>> THEN Output("single", incomplete[1], TRUE, {})
  ELSE Output("notfound", <<>>, FALSE, {})

\* a slip: the names bound to nothing are left out, and the argument is invalid
\* only when no name is left
TracebackOfBound(arg, l, tbs) ==
  LET IsBound(o) == o # {}
      objects == SelectSeq(Targets(arg, l), IsBound)
  IN  IF objects = <<>> /\ Targets(arg, l) # <<>>
        THEN Output("invalid", <<>>, FALSE, {})
        ELSE LET fetched == [i \in DOMAIN objects |-> tbs[CHOOSE o \in objects[i] : TRUE]]
             IN  Reconciled(Complete(fetched), Incomplete(fetched))

\* lines 138-164
Traceback(arg, l, tbs) ==
  LET objects == Targets(arg, l)
  IN  IF \E i \in DOMAIN objects : objects[i] = {}
        THEN Output("invalid", <<>>, FALSE, {})
        ELSE LET fetched == [i \in DOMAIN objects |-> tbs[CHOOSE o \in objects[i] : TRUE]]
             IN  Reconciled(Complete(fetched), Incomplete(fetched))

\* ------------------------------------------------------------- commands
\* the names an operator types: a, b, z and __builtins__
ArgNames == {<<1>>, <<2>>, <<Alphabet>>, BuiltinsName}

\* names on one command line
MaxArgs == 2

ArgLines == SeqsUpTo(ArgNames, MaxArgs)

\* line 122
Advance(sel, n) == (sel + 1) % n

\* a slip: the cursor stops at the first cycle
RetreatClamped(sel, n) == IF sel = 0 THEN 0 ELSE sel - 1

\* line 126
Retreat(sel, n) == (sel - 1) % n

\* lines 118-119 (list, lines 102-113); an exception of line 111 is caught
\* nowhere and leaves cmdloop
DoList ==
  /\ pc = "cmdloop"
  /\ IF ListRaises(cycles[selection + 1].cycle)
       THEN /\ pc' = "raised"
            /\ locals' = locals
            /\ out' = Failed
       ELSE /\ pc' = pc
            /\ locals' = Locals(cycles[selection + 1].cycle)
            /\ out' = Listed(cycles, selection)
  /\ UNCHANGED <<cycles, selection>>
  /\ UNCHANGED <<heapvars, sepvars, simpvars>>

\* a slip: the selection moves and the listing is not redone
DoNextUnlisted ==
  /\ pc = "cmdloop"
  /\ selection' = Advance(selection, Len(cycles))
  /\ out' = Listed(cycles, selection')
  /\ UNCHANGED <<pc, cycles, locals>>
  /\ UNCHANGED <<heapvars, sepvars, simpvars>>

\* lines 121-123
DoNext ==
  /\ pc = "cmdloop"
  /\ selection' = Advance(selection, Len(cycles))
  /\ IF ListRaises(cycles[selection' + 1].cycle)
       THEN /\ pc' = "raised"
            /\ locals' = locals
            /\ out' = Failed
       ELSE /\ pc' = pc
            /\ locals' = Locals(cycles[selection' + 1].cycle)
            /\ out' = Listed(cycles, selection')
  /\ UNCHANGED cycles
  /\ UNCHANGED <<heapvars, sepvars, simpvars>>

\* lines 125-127
DoPrevious ==
  /\ pc = "cmdloop"
  /\ selection' = Retreat(selection, Len(cycles))
  /\ IF ListRaises(cycles[selection' + 1].cycle)
       THEN /\ pc' = "raised"
            /\ locals' = locals
            /\ out' = Failed
       ELSE /\ pc' = pc
            /\ locals' = Locals(cycles[selection' + 1].cycle)
            /\ out' = Listed(cycles, selection')
  /\ UNCHANGED cycles
  /\ UNCHANGED <<heapvars, sepvars, simpvars>>

\* lines 129-135
DoPrint ==
  /\ pc = "cmdloop"
  /\ \E arg \in ArgLines : out' = Evaluated(arg, locals)
       /\ locals' = WithBuiltins(locals)
  /\ UNCHANGED <<pc, cycles, selection>>
  /\ UNCHANGED <<heapvars, sepvars, simpvars>>

\* lines 137-164
DoTraceback ==
  /\ pc = "cmdloop"
  /\ \E arg \in ArgLines : out' = Traceback(arg, locals, tbOf)
       /\ UNCHANGED <<pc, cycles, selection, locals>>
  /\ UNCHANGED <<heapvars, sepvars, simpvars>>

\* lines 115-116: a true result ends cmdloop
DoQuit ==
  /\ pc = "cmdloop"
  /\ pc' = "done"
  /\ out' = NoOutput
  /\ UNCHANGED <<cycles, selection, locals>>
  /\ UNCHANGED <<heapvars, sepvars, simpvars>>

\* ------------------------------------------------------------- specifications
\* before explore_cycles() is called
InitProgram ==
  /\ pc = "init"
  /\ garbage = {}
  /\ refs = <<>>
  /\ pending = {}
  /\ rootmap = <<>>
  /\ union = <<>>
  /\ nroots = 0
  /\ separated = <<>>
  /\ idx = 0
  /\ phase = ""
  /\ size = 0
  /\ cycle = EmptyDict
  /\ pos = 0
  /\ cycles = <<>>
  /\ selection = 0
  /\ locals = EmptyDict
  /\ out = NoOutput

RECURSIVE SubsetsUpTo(_, _)
SubsetsUpTo(S, k) ==
  IF k = 0 THEN {{}}
  ELSE LET T == SubsetsUpTo(S, k - 1) IN T \cup {t \cup {x} : t \in T, x \in S}

\* what the references E and the attribute tables D (owner, table) show of the
\* object o: an attribute table is a dict that holds each of its referents
\* under a key of its own, a str; its owner has the attribute __dict__ and
\* after it, in dir(), an attribute for each of those keys
ShapeIn(o, E, D) ==
  LET held(x) == Ascending({p[2] : p \in {q \in E : q[1] = x}})
      tables == {p[2] : p \in {q \in D : q[1] = o}}
      items == IF \E p \in D : p[2] = o
                 THEN [i \in DOMAIN held(o) |-> Item(Key(Outside, "plain"), held(o)[i])]
                 ELSE <<>>
      attrs == IF tables = {} THEN <<>>
               ELSE LET d == CHOOSE t \in tables : TRUE
                    IN  <<{d}>> \o [i \in DOMAIN held(d) |-> {held(d)[i]}]
  IN  Shape(items, <<>>, {}, attrs)

\* the heap whose references are the pairs E, whose attribute tables are the
\* pairs D (owner, table) and whose objects have the sizes sz
HeapIs(O, G, E, D, sz) ==
  /\ gcGarbage = G
  /\ referents = [o \in O |-> {p[2] : p \in {q \in E : q[1] = o}}]
  /\ dictOf = [o \in O |-> {p[2] : p \in {q \in D : q[1] = o}}]
  /\ sizeof = sz
  /\ shapeOf = [o \in O |-> ShapeIn(o, E, D)]

Untraced(O) == [o \in O \cup {Builtins} |-> {}]

\* every heap of NumObjects objects up to the weight MaxHeap, none traced; the
\* garbage is the objects 1..k (any other set of k objects is a renaming)
Init ==
  /\ InitProgram
  /\ \E k \in 0..NumObjects :
       /\ NumObjects - k <= MaxHeap
       /\ \E E \in SubsetsUpTo(Objects \X Objects, MaxHeap - (NumObjects - k)) :
          \E D \in SubsetsUpTo(Objects \X Objects, MaxHeap - (NumObjects - k) - Cardinality(E)) :
            /\ \A p \in D, q \in D : p[1] = q[1] => p = q
            /\ \E sz \in [Objects -> 1..(MaxHeap + 1)] :
                 /\ (NumObjects - k) + Cardinality(E) + Cardinality(D)
                      + SumOver(sz, Objects) - NumObjects <= MaxHeap
                 /\ HeapIs(Objects, 1..k, E, D, sz)
  /\ tbOf = Untraced(Objects)

Next ==
  \/ Collect
  \/ SeparateEntry
  \/ Emit
  \/ BeginCycle
  \/ CollapseVisit
  \/ PruneRound
  \/ Rank
  \/ DoList
  \/ DoNext
  \/ DoPrevious
  \/ DoPrint
  \/ DoTraceback
  \/ DoQuit

Spec == Init /\ [][Next]_vars

\* ------------------------------------------------------------- separation
Separated == pc \in {"simplify", "cmdloop"} \/ (pc = "done" /\ garbage # {})

Ranked == pc = "cmdloop" \/ (pc = "done" /\ garbage # {})

\* the nodes joined to the nodes of S by undirected paths of references of r
RECURSIVE Joined(_, _)
Joined(r, S) ==
  LET T == S \cup {y \in DOMAIN r : \E x \in S : y \in r[x] \/ x \in r[y]}
  IN  IF T = S THEN S ELSE Joined(r, T)

ComponentsOf(n) == {i \in DOMAIN separated : n \in Range(separated[i].keys)}

\* C1: the components separate returns partition the suspect set into its
\* weakly connected components: every suspect is a key of exactly one
\* component (once), two suspects share a component iff an undirected path of
\* references joins them, and every member keeps its own referent set.
C1_WeaklyConnectedComponents ==
  Separated =>
    /\ \A n \in garbage : Cardinality(ComponentsOf(n)) = 1
    /\ \A i \in DOMAIN separated :
         /\ Range(separated[i].keys) \subseteq garbage
         /\ Len(separated[i].keys) = Cardinality(Range(separated[i].keys))
         /\ DOMAIN separated[i].vals = Range(separated[i].keys)
         /\ \A k \in Range(separated[i].keys) : separated[i].vals[k] = refs[k]
    /\ \A a \in garbage, b \in garbage :
         (ComponentsOf(a) = ComponentsOf(b)) <=> (b \in Joined(refs, {a}))

\* two groups were merged into one of three members, the third one left as it is
C1_Witness ==
  /\ pc = "simplify"
  /\ nroots > Len(separated)
  /\ \E i \in DOMAIN separated : Len(separated[i].keys) = 3

\* separate run over the entries in ascending order of the keys, the least
\* root surviving every merge
RECURSIVE SeparateAscending(_, _, _, _, _)
SeparateAscending(r, todo, rm, un, n) ==
  IF todo = {} THEN un
  ELSE LET key == CHOOSE k \in todo : \A j \in todo : k <= j
           items == Items(key, r[key])
           roots == Roots(items, rm)
           root == CHOOSE x \in roots : \A y \in roots : x <= y
       IN  IF roots # {}
             THEN SeparateAscending(r, todo \ {key},
                    Remap(MergedItems(items, roots, root, un), root, rm),
                    MergedUnion(items, roots, root, un), n)
             ELSE SeparateAscending(r, todo \ {key},
                    Remap(items, n + 1, rm), FreshUnion(items, n + 1, un), n + 1)

AscendingUnion(r) == SeparateAscending(r, DOMAIN r, <<>>, <<>>, 0)

\* C2: the set of components (as sub-mappings) is the same for every order of
\* the entries and every choice of the surviving root: any run returns what
\* the run in ascending order with the least root returns.
C2_OrderIndependent ==
  Separated =>
    {separated[i].vals : i \in DOMAIN separated}
      = {[k \in AscendingUnion(refs)[root] |-> refs[k]] : root \in DOMAIN AscendingUnion(refs)}

\* a run the ascending one is not: three suspects end in one group whose root
\* is the second root created, the first one removed by the merge
C2_Witness ==
  /\ pc = "simplify"
  /\ Cardinality(garbage) = 3
  /\ \A n \in garbage : rootmap[n] = 2

\* ------------------------------------------------------------- ranking
MembersBefore(v) == Len(separated[v.origin].keys)

SizeBefore(v) == SizeOf(separated[v.origin], sizeof)

\* C3 as stated: the list is ascending by (size, member count), both taken
\* before simplification.
C3_RankedByCountBefore ==
  Ranked =>
    \A i \in DOMAIN cycles, j \in DOMAIN cycles :
      i < j =>
        /\ cycles[i].size = SizeBefore(cycles[i])
        /\ \/ cycles[i].size < cycles[j].size
           \/ /\ cycles[i].size = cycles[j].size
              /\ MembersBefore(cycles[i]) <= MembersBefore(cycles[j])

\* C3 as amended: the list is ascending by (size, member count), the size
\* taken before simplification and the member count after it.
C3_RankedByCountAfter ==
  Ranked =>
    /\ \A i \in DOMAIN cycles : cycles[i].size = SizeBefore(cycles[i])
    /\ \A i \in DOMAIN cycles, j \in DOMAIN cycles :
         i < j =>
           \/ cycles[i].size < cycles[j].size
           \/ /\ cycles[i].size = cycles[j].size
              /\ Len(cycles[i].cycle.keys) <= Len(cycles[j].cycle.keys)

\* two cycles of one size, the first with more members before simplification
\* and fewer after it
C3_Witness ==
  /\ pc = "cmdloop"
  /\ Len(cycles) = 2
  /\ cycles[1].size = cycles[2].size
  /\ MembersBefore(cycles[1]) > MembersBefore(cycles[2])
  /\ Len(cycles[1].cycle.keys) < Len(cycles[2].cycle.keys)

\* ------------------------------------------------------------- end to end
\* the suspects a, b, c, d of the scenario: a->b, b->a, c->d
ScenarioObjects == 1..4

ScenarioEdges == {<<1, 2>>, <<2, 1>>, <<3, 4>>}

\* the scenario with every choice of sizes and at most one attribute table
InitScenario ==
  /\ InitProgram
  /\ \E D \in SubsetsUpTo(ScenarioObjects \X ScenarioObjects, 1) :
     \E sz \in [ScenarioObjects -> 1..MaxSize] :
       HeapIs(ScenarioObjects, ScenarioObjects, ScenarioEdges, D, sz)
  /\ tbOf = Untraced(ScenarioObjects)

SpecScenario == InitScenario /\ [][Next]_vars

GraphAB == [k \in {1, 2} |-> IF k = 1 THEN {2} ELSE {1}]

GraphCD == [k \in {3, 4} |-> IF k = 3 THEN {4} ELSE {}]

\* no reference of the scenario leads to the attribute table of its owner
PlainObjects == \A o \in ScenarioObjects : dictOf[o] \cap referents[o] = {}

\* separation yields {a,b} and {c,d}; d is removed, then c; {a,b} is unchanged
ScenarioSimplified ==
  /\ Separated => {separated[i].vals : i \in DOMAIN separated} = {GraphAB, GraphCD}
  /\ (pc = "simplify" /\ phase = "prune" /\ separated[idx].vals = GraphCD)
       => Range(cycle.keys) \in {{3, 4}, {3}, {}}
  /\ (pc = "simplify" /\ phase = "prune" /\ separated[idx].vals = GraphAB)
       => cycle.vals = GraphAB
  /\ Ranked =>
       /\ Len(cycles) = 2
       /\ \E i \in 1..2 : cycles[i].cycle.keys = <<>> /\ cycles[3 - i].cycle.vals = GraphAB

\* C4 as stated: for any sizes the empty component is ranked before {a,b}.
C4_EmptyRankedFirst ==
  PlainObjects =>
    /\ ScenarioSimplified
    /\ Ranked => cycles[1].cycle.keys = <<>>

\* C4 as amended: the empty component keeps the size of c and d, and is ranked
\* before {a,b} iff that size is not greater than the size of a and b.
C4_EmptyRankedBySizeBefore ==
  PlainObjects =>
    /\ ScenarioSimplified
    /\ Ranked =>
         (cycles[1].cycle.keys = <<>> <=> sizeof[3] + sizeof[4] <= sizeof[1] + sizeof[2])

\* c and d are larger than a and b: the emptied component is ranked last
C4_Witness ==
  /\ pc = "cmdloop"
  /\ PlainObjects
  /\ sizeof[3] + sizeof[4] > sizeof[1] + sizeof[2]
  /\ cycles[2].cycle.keys = <<>>
  /\ cycles[1].cycle.vals = GraphAB

\* ------------------------------------------------------------- order
RECURSIVE CollapseFrom(_, _)
CollapseFrom(c, p) ==
  IF p > Len(c.keys) THEN c
  ELSE CollapseFrom(CollapseItem(c, c.keys[p], dictOf[c.keys[p]]), p + 1)

RECURSIVE PruneAll(_)
PruneAll(c) == IF Removable(c) = {} THEN c ELSE PruneAll(Pruned(c, Removable(c)))

\* the analysis with every iteration in ascending order of the objects
AscendingCycles ==
  LET comps == Materialize(refs, AscendingUnion(refs), Ascending(garbage))
  IN  Sorted([i \in DOMAIN comps |->
                Entry(SizeOf(comps[i], sizeof), PruneAll(CollapseFrom(comps[i], 1)), i)])

\* the sizes and edge sets of a ranked list, in its order
Analysis(cs) == [i \in DOMAIN cs |-> [size |-> cs[i].size, vals |-> cs[i].cycle.vals]]

\* C5: the ranked list of simplified components (members, edge sets, order) is
\* the same for every order of iteration: any run ends with the list the run in
\* ascending order ends with.
C5_SameAnalysisInEveryOrder ==
  Ranked => Analysis(cycles) = Analysis(AscendingCycles)

\* ------------------------------------------------------------- session
Current == cycles[selection + 1].cycle

\* C8: the cursor is a valid index in the command loop; it starts at 0, next
\* at the last index gives 0 and otherwise adds one, previous at 0 gives the
\* last index and otherwise subtracts one, no other command moves it.
C8_CursorValid ==
  [][/\ pc' = "cmdloop" => selection' \in 0..(Len(cycles') - 1)
     /\ Rank => selection' = 0
     /\ DoNext => selection' = IF selection = Len(cycles) - 1 THEN 0 ELSE selection + 1
     /\ DoPrevious => selection' = IF selection = 0 THEN Len(cycles) - 1 ELSE selection - 1
     /\ (pc = "cmdloop" /\ ~ DoNext /\ ~ DoPrevious) => selection' = selection]_vars

\* the cursor is on the last of several cycles
C8_Witness ==
  /\ pc = "cmdloop"
  /\ Len(cycles) >= 2
  /\ selection = Len(cycles) - 1
  /\ out.kind = "list"

\* every member of the selected cycle has exactly one name, no name is bound
\* to anything else, and no two names are bound to one member
BoundToSelection ==
  /\ Len(locals.keys) = Cardinality(Range(locals.keys))
  /\ DOMAIN locals.vals = Range(locals.keys)
  /\ \A m \in Range(Current.keys) :
       Cardinality({nm \in Range(locals.keys) : locals.vals[nm] = m}) = 1
  /\ \A nm \in Range(locals.keys) : locals.vals[nm] \in Range(Current.keys)

\* C9: after the initial listing and after every next and previous the
\* binding table binds exactly one name to each member of the selected cycle,
\* distinct names to distinct members, and no name to any other object.
C9_BindingsRebuilt ==
  [][(Rank \/ DoNext \/ DoPrevious) => BoundToSelection']_vars

\* another cycle than the first is selected and its members are bound
C9_Witness ==
  /\ pc = "cmdloop"
  /\ selection >= 1
  /\ Len(Current.keys) >= 2
  /\ BoundToSelection
  /\ out.kind = "list"

\* the objects traceback ranges over when no name is given
AllTargets == UNION Range(Targets(<<>>, locals))

\* C10: print leaves the cursor, the ranked cycles and the binding table as
\* they were, so that traceback without names ranges over the objects of the
\* selected cycle.
C10_PrintChangesNothing ==
  [][DoPrint =>
       /\ selection' = selection
       /\ cycles' = cycles
       /\ locals' = locals
       /\ AllTargets' = Range(Current.keys)']_vars

\* ------------------------------------------------------------- tracebacks
\* a traceback has at least one frame
Tracebacks == SeqsUpTo(Frames, MaxDepth) \ {<<>>}

Optional(S) == {{}} \cup {{x} : x \in S}

\* the cycle a <-> b, each object with any traceback or none; the builtins
\* have none or one that never reached the tool
InitTraced ==
  /\ InitProgram
  /\ HeapIs(Objects, {1, 2}, {<<1, 2>>, <<2, 1>>}, {}, [o \in Objects |-> 1])
  /\ \E t1 \in Optional(Tracebacks), t2 \in Optional(Tracebacks),
        tb \in Optional({<<[path |-> ProgFile, line |-> 1]>>}) :
       tbOf = [o \in Objects \cup {Builtins} |->
                 IF o = 1 THEN t1 ELSE IF o = 2 THEN t2 ELSE IF o = Builtins THEN tb ELSE {}]

SpecTraced == InitTraced /\ [][Next]_vars

\* the command lines all of whose names are bound
ValidLines == {arg \in ArgLines : \A i \in DOMAIN arg : arg[i] \in Range(locals.keys)}

\* the tracebacks fetched for a valid line, one per target, None left out
Fetched(arg) ==
  LET names == IF arg # <<>> THEN arg ELSE locals.keys
  IN  [i \in DOMAIN names |-> tbOf[locals.vals[names[i]]]]

HasToolFrame(tb) == \E i \in DOMAIN tb : tb[i].path = ToolFile

\* the frames before the first frame of the tool
BeforeTool(tb) ==
  CHOOSE p \in {SubSeq(tb, 1, n) : n \in 0..(Len(tb) - 1)} :
    /\ \A i \in DOMAIN p : p[i].path # ToolFile
    /\ tb[Len(p) + 1].path = ToolFile

\* the truncated complete tracebacks of a valid line
Cuts(arg) ==
  {BeforeTool(tb) : tb \in {t \in UNION Range(Fetched(arg)) : HasToolFrame(t)}}

IsSuffix(s, t) ==
  /\ Len(s) <= Len(t)
  /\ \A i \in 1..Len(s) : s[i] = t[Len(t) - Len(s) + i]

Suffixes(t) == {SubSeq(t, n, Len(t)) : n \in 1..(Len(t) + 1)}

LongestCommonSuffix(T) ==
  LET common == {s \in UNION {Suffixes(t) : t \in T} : \A t \in T : IsSuffix(s, t)}
  IN  CHOOSE s \in common : \A u \in common : Len(u) <= Len(s)

ProgFrame(l) == [path |-> ProgFile, line |-> l]

ToolFrame == [path |-> ToolFile, line |-> ExecLine]

\* C6: a traceback is complete iff it has a frame of the tool and is cut to the
\* frames before the first one; when some target has a complete traceback, what
\* is reported is the longest common trailing part of the cut complete
\* tracebacks, whatever the incomplete and missing ones are; for [f1,f2,f3]
\* and [f0,f2,f3] it is [f2,f3].
C6_LongestCommonSuffix ==
  /\ pc = "cmdloop" =>
       /\ \A arg \in ValidLines :
            Cuts(arg) # {} =>
              Traceback(arg, locals, tbOf)
                = Output("common", LongestCommonSuffix(Cuts(arg)), FALSE, {})
       /\ out.kind = "common" =>
            /\ \A i \in DOMAIN out.frames : out.frames[i].path # ToolFile
            /\ \E arg \in ValidLines :
                 Cuts(arg) # {} /\ out.frames = LongestCommonSuffix(Cuts(arg))
  /\ Reconciled(
       Complete(<<{<<ProgFrame(1), ProgFrame(2), ProgFrame(3), ToolFrame>>},
                  {<<ProgFrame(0), ProgFrame(2), ProgFrame(3), ToolFrame>>}>>),
       <<>>).frames = <<ProgFrame(2), ProgFrame(3)>>

\* both objects have complete tracebacks that differ and share a trailing part
C6_Witness ==
  /\ pc = "cmdloop"
  /\ out.kind = "common"
  /\ out.frames # <<>>
  /\ \A o \in {1, 2} :
       /\ tbOf[o] # {}
       /\ \A tb \in tbOf[o] : HasToolFrame(tb) /\ Len(BeforeTool(tb)) > Len(out.frames)

Count(tbs, P(_)) == Cardinality({i \in DOMAIN tbs : tbs[i] # {} /\ \A tb \in tbs[i] : P(tb)})

LacksToolFrame(tb) == ~ HasToolFrame(tb)

\* C7: a valid traceback command has one of four outcomes: with a complete
\* traceback the common part; else with more than one incomplete traceback
\* (counted per target named) the diagnostic and no frames; else with one
\* incomplete traceback that traceback in full and the line '  ...'; else
\* 'no traceback found'.
C7_FourOutcomes ==
  pc = "cmdloop" =>
    \A arg \in ValidLines :
      LET tbs == Fetched(arg)
          result == Traceback(arg, locals, tbOf)
      IN  IF Count(tbs, HasToolFrame) >= 1
            THEN result.kind = "common" /\ ~ result.dots
          ELSE IF Count(tbs, LacksToolFrame) > 1
            THEN result = Output("cannot", <<>>, FALSE, {})
          ELSE IF Count(tbs, LacksToolFrame) = 1
            THEN \E i \in DOMAIN tbs :
                   /\ tbs[i] # {}
                   /\ result = Output("single", CHOOSE tb \in tbs[i] : TRUE, TRUE, {})
          ELSE result = Output("notfound", <<>>, FALSE, {})

\* the two objects have incomplete tracebacks and the command says so
C7_Witness ==
  /\ pc = "cmdloop"
  /\ out.kind = "cannot"
  /\ \A o \in {1, 2} : tbOf[o] # {} /\ \A tb \in tbOf[o] : LacksToolFrame(tb)

\* ------------------------------------------------------------- description
\* entries (items, elements, members, attributes) of the shapes of a heap
MaxEntries == 2

SeqsOf(S, n) == [1..n -> S]

\* the items a mapping may hold next to the object ref: ref or another object
\* as the key, ref or another object as the value
ItemsFor(ref) ==
  {Item(key, value) :
     key \in {Key(ref, "plain")} \cup {Key(Outside, kind) : kind \in KeyKinds},
     value \in {Outside, ref}}

Entries(shape) ==
  Len(shape.items) + Len(shape.elems) + Cardinality(shape.members) + Len(shape.attrs)

\* the shapes of at most n entries that hold ref or other objects
ShapesFor(ref, n) ==
  UNION {{Shape(items, elems, members, attrs) :
            items \in SeqsOf(ItemsFor(ref), q[1]),
            elems \in SeqsOf({Outside, ref}, q[2]),
            members \in {m \in SUBSET {Outside, ref} : Cardinality(m) = q[3]},
            attrs \in SeqsOf({{}, {Outside}, {ref}}, q[4])} :
         q \in {r \in (0..n) \X (0..n) \X (0..2) \X (0..n) : r[1] + r[2] + r[3] + r[4] <= n}}

\* two suspects, each referencing itself and nothing else, of every shape
InitDescribed ==
  /\ InitProgram
  /\ gcGarbage = {1, 2}
  /\ referents = [o \in {1, 2} |-> {o}]
  /\ dictOf = [o \in {1, 2} |-> {}]
  /\ sizeof = [o \in {1, 2} |-> 1]
  /\ tbOf = Untraced({1, 2})
  /\ \E s1 \in ShapesFor(1, MaxEntries) :
     \E s2 \in ShapesFor(2, MaxEntries - Entries(s1)) :
       shapeOf = [o \in {1, 2} |-> IF o = 1 THEN s1 ELSE s2]

SpecDescribed == InitDescribed /\ [][Next]_vars

\* C11: once the command loop is entered the session ends only through quit:
\* list, next, previous, print and traceback leave it in the command loop,
\* whatever they are given, and quit ends it.
C11_OnlyQuitEnds ==
  [][/\ (pc = "cmdloop" /\ pc' # "cmdloop") => DoQuit
     /\ (DoList \/ DoNext \/ DoPrevious \/ DoPrint \/ DoTraceback) => pc' = "cmdloop"
     /\ DoQuit => pc' = "done"]_vars

\* ------------------------------------------------------------- invalid argument
\* the command lines with a name that is bound to nothing
InvalidLines == ArgLines \ ValidLines

\* every line with a name bound to nothing gets the invalid-argument message
InvalidReported ==
  \A arg \in InvalidLines : Traceback(arg, locals, tbOf) = Output("invalid", <<>>, FALSE, {})

\* the messages of the traceback command
TracebackKinds == {"invalid", "common", "cannot", "single", "notfound"}

\* C12: a traceback command with at least one name that is not bound prints the
\* invalid-argument message whatever tracebacks the objects of its other names
\* have (none is fetched or reconciled), and no traceback command changes the
\* selection, the bindings or the ranked list.  (The answers depend on the
\* bindings only, so they are looked at whenever the bindings are new.)
C12_InvalidArgument ==
  [][/\ (pc' = "cmdloop" /\ (pc # "cmdloop" \/ locals' # locals)) => InvalidReported'
     /\ (pc = "cmdloop" /\ out'.kind \in TracebackKinds) =>
          /\ selection' = selection
          /\ locals' = locals
          /\ cycles' = cycles
          /\ pc' = "cmdloop"
          /\ \E arg \in ArgLines : out' = Traceback(arg, locals, tbOf)]_vars

\* an invalid argument was reported, and some line names a bound object with a
\* traceback that reached the tool next to a name bound to nothing
C12_Witness ==
  /\ pc = "cmdloop"
  /\ out.kind = "invalid"
  /\ \E arg \in InvalidLines :
       /\ Len(arg) = 2
       /\ arg[1] \in Range(locals.keys)
       /\ \E tb \in tbOf[locals.vals[arg[1]]] : HasToolFrame(tb)

\* ------------------------------------------------------------- probes
\* the positions of a sequence at which ref stands
Places(seq, ref) == {i \in DOMAIN seq : seq[i] = ref}

\* the phrases the order of probes allows for the reference of obj to ref: the
\* key phrase with the repr of a key under which ref is a value; else the
\* key-only phrase when ref is a key; else the phrase of an index at which ref
\* stands; else the membership phrase; else the phrase of an attribute whose
\* value is ref, or the arrow when getattr raises for some attribute; the
\* arrow when nothing matches
Allowed(obj, ref) ==
  LET values == {i \in DOMAIN obj.items : obj.items[i].value = ref}
      keys == {i \in DOMAIN obj.items : obj.items[i].key.is = ref}
  IN  IF obj.mapping /\ values # {} THEN {Phrase("key", i, "key") : i \in values}
      ELSE IF obj.mapping /\ keys # {} THEN {Phrase("keyonly", 0, "")}
      ELSE IF obj.sequence /\ Places(obj.elems, ref) # {}
        THEN {Phrase("index", i - 1, "") : i \in Places(obj.elems, ref)}
      ELSE IF obj.setlike /\ ref \in obj.members THEN {Phrase("member", 0, "")}
      ELSE {Phrase("attr", i, "") : i \in Places(obj.attrs, {ref})}
             \cup (IF Places(obj.attrs, {}) # {} \/ Places(obj.attrs, {ref}) = {}
                     THEN {Arrow} ELSE {})

\* C13: every reference that list describes is described by the first match of
\* the probes in their order: mapping value (key phrase), mapping key (key-only
\* phrase), sequence index, set membership, attribute; the arrow when nothing
\* matches or the attributes cannot be enumerated.  {"k": target} gives the
\* phrase of the key "k", [x, target] the phrase of index 1.
C13_FirstMatchingProbe ==
  out.kind = "list" =>
    \A p \in DOMAIN out.lines : out.lines[p].phrase \in Allowed(shapeOf[p[1]], p[2])

\* ------------------------------------------------------------- names
\* members of the cycle that is listed
MaxMembers == 28

\* n suspects in a ring, 1 -> 2 -> ... -> n -> 1, as a cycle
Ring(n) == [keys |-> [i \in 1..n |-> i], vals |-> [o \in 1..n |-> {(o % n) + 1}]]

\* explore_cycles.__init__ after its loop (line 96) on a ring of any number of
\* suspects of one byte each: the ring is the one cycle, nothing of it is
\* collapsed or removed
InitNames ==
  \E n \in 1..MaxMembers :
    /\ HeapIs(1..n, 1..n, {<<o, (o % n) + 1>> : o \in 1..n}, {}, [o \in 1..n |-> 1])
    /\ tbOf = Untraced(1..n)
    /\ pc = "simplify"
    /\ garbage = 1..n
    /\ refs = Ring(n).vals
    /\ pending = {}
    /\ rootmap = [o \in 1..n |-> 1]
    /\ union = [root \in {1} |-> 1..n]
    /\ nroots = 1
    /\ separated = <<Ring(n)>>
    /\ idx = 2
    /\ phase = "size"
    /\ size = n
    /\ cycle = Ring(n)
    /\ pos = n + 1
    /\ cycles = <<Entry(n, Ring(n), 1)>>
    /\ selection = 0
    /\ locals = EmptyDict
    /\ out = NoOutput

\* lines 97-171: the listing of __init__ and the commands
NextNames ==
  \/ Rank
  \/ DoList
  \/ DoNext
  \/ DoPrevious
  \/ DoPrint
  \/ DoTraceback
  \/ DoQuit

SpecNames == InitNames /\ [][NextNames]_vars

\* the i-th identifier (from 1) of the sequence a, b, ..., z, aa, ab, ..., zz
Identifier(i) ==
  IF i <= Alphabet THEN <<i>>
  ELSE <<((i - Alphabet - 1) \div Alphabet) + 1, ((i - Alphabet - 1) % Alphabet) + 1>>

\* the i-th word (from 1) of two letters in alphabetical order: aa, ab, ..., zz
Word(i) == <<((i - 1) \div Alphabet) + 1, ((i - 1) % Alphabet) + 1>>

Distinct(names) == \A i, j \in DOMAIN names : names[i] = names[j] => i = j

\* the bindings after a listing: the names in the order of the members
Names == locals.keys

\* C14 as stated: the i-th member of the listed cycle is bound to the i-th
\* identifier of a, b, ..., z, aa, ab, ...: the first 26 members are a..z, the
\* 27th is aa, and the names are pairwise distinct.
C14_AlphabeticSequence ==
  (pc = "cmdloop" /\ out.kind = "list") =>
    /\ Len(Names) = Len(Current.keys)
    /\ \A i \in DOMAIN Names :
         Names[i] = Identifier(i) /\ locals.vals[Names[i]] = Current.keys[i]
    /\ Distinct(Names)

\* C14: the i-th member of the listed cycle is bound to the i-th name of
\* a, b, ..., z when the cycle has at most 26 members, and to the i-th word of
\* two letters aa, ab, ..., az, ba, ... when it has 27 to 676: then the first 26
\* members are aa..az and the 27th is ba.  The names are pairwise distinct.
C14_FixedWidthNames ==
  (pc = "cmdloop" /\ out.kind = "list") =>
    /\ Len(Names) = Len(Current.keys)
    /\ \A i \in DOMAIN Names :
         /\ Names[i] = IF Len(Names) <= Alphabet THEN <<i>> ELSE Word(i)
         /\ locals.vals[Names[i]] = Current.keys[i]
    /\ Len(Names) > Alphabet => (Names[1] = <<1, 1>> /\ Names[Alphabet + 1] = <<2, 1>>)
    /\ Distinct(Names)

\* a cycle of more than 26 members is listed
C14_Witness ==
  /\ pc = "cmdloop"
  /\ out.kind = "list"
  /\ Len(Current.keys) > Alphabet
  /\ Names[Alphabet + 1] = <<2, 1>>

\* ------------------------------------------------------------- pruning
\* the members a step removes from the cycle at hand
Removed == Range(cycle.keys) \ Range(cycle.keys')

\* C15: a round of pruning removes only members whose edge set is empty at its
\* start, takes the removed members out of the edge set of every member that
\* stays, and changes nothing else; the loop goes on as long as a round removes
\* something and ends with a cycle in which no edge set is empty, on which
\* another round or another whole pruning changes nothing.
C15_PruningRounds ==
  [][(pc = "simplify" /\ phase = "prune") =>
       /\ Range(cycle.keys') \subseteq Range(cycle.keys)
       /\ \A m \in Removed : cycle.vals[m] = {}
       /\ \A m \in Range(cycle.keys) : cycle.vals[m] # {} => m \in Range(cycle.keys')
       /\ \A m \in Range(cycle.keys') : cycle.vals'[m] = cycle.vals[m] \ Removed
       /\ phase' = "prune" => Removed # {}
       /\ phase' # "prune" =>
            /\ Removed = {}
            /\ \A m \in Range(cycle.keys') : cycle.vals'[m] # {}
            /\ Pruned(cycle', Removable(cycle')) = cycle'
            /\ PruneAll(cycle') = cycle'
            /\ cycles'[Len(cycles')].cycle = cycle']_vars

\* pruning has reached its fixed point after it removed some members and kept
\* others
C15_Witness ==
  /\ pc = "simplify"
  /\ phase = "prune"
  /\ Removable(cycle) = {}
  /\ cycle.keys # <<>>
  /\ Len(cycle.keys) < Len(separated[idx].keys)

\* ------------------------------------------------------------- cyclic core
\* S and everything reached from S along the edges vals
RECURSIVE Grow(_, _)
Grow(vals, S) ==
  LET T == S \cup UNION {vals[x] : x \in S}
  IN  IF T = S THEN S ELSE Grow(vals, T)

\* the members reached from m by a path of one edge or more
After(vals, m) == Grow(vals, vals[m])

OnCycle(vals, m) == m \in After(vals, m)

ReachesCycle(vals, m) == \E n \in After(vals, m) : OnCycle(vals, n)

\* pruning of the cycle at hand has reached its fixed point
PruningDone == pc = "simplify" /\ phase = "prune" /\ Removable(cycle) = {}

\* the cycle at hand as container collapse left it
AfterCollapse == CollapseFrom(separated[idx], 1)

\* C16 as stated: when pruning has reached its fixed point every member that
\* is left lies on a directed cycle of the cycle that is left.
C16_OnlyCyclicCore ==
  PruningDone => \A m \in Range(cycle.keys) : OnCycle(cycle.vals, m)

\* C16: when pruning has reached its fixed point the members left are exactly
\* those from which a directed cycle of the collapsed graph is reached (the
\* members on a cycle and the members that feed into one), each with its edges
\* to the members left; the members from which every path ends are removed.
C16_ReachingACycle ==
  PruningDone =>
    /\ Range(cycle.keys) = {m \in Range(AfterCollapse.keys) : ReachesCycle(AfterCollapse.vals, m)}
    /\ \A m \in Range(cycle.keys) :
         /\ cycle.vals[m] = AfterCollapse.vals[m] \cap Range(cycle.keys)
         /\ ReachesCycle(cycle.vals, m)

\* pruning has ended, a member on no cycle is left and a member was removed
C16_Witness ==
  /\ PruningDone
  /\ \E m \in Range(cycle.keys) : ~OnCycle(cycle.vals, m)
  /\ Len(cycle.keys) < Len(AfterCollapse.keys)

\* ------------------------------------------------------------- empty cycles
\* the scenario, where the while loop of lines 91-95 keeps iterating until it
\* breaks
SpecPruning == InitScenario /\ [][Next]_vars /\ WF_vars(PruneRound)

\* no member of c lies on a directed cycle
Acyclic(c) == \A m \in Range(c.keys) : ~OnCycle(c.vals, m)

\* the cycle of an entry as separate returned it
Origin(v) == separated[v.origin]

\* a cycle without a directed cycle is empty when pruning is done; every cycle
\* separate returned has its entry, with the size it had then; an empty cycle
\* that is selected is listed with no member, no line and no binding; no
\* exception is raised
EmptyCyclesKept ==
  /\ (PruningDone /\ Acyclic(separated[idx])) => cycle = [keys |-> <<>>, vals |-> <<>>]
  /\ Ranked =>
       /\ {cycles[i].origin : i \in DOMAIN cycles} = DOMAIN separated
       /\ Len(cycles) = Len(separated)
       /\ \A i \in DOMAIN cycles :
            /\ cycles[i].size = SumOver(sizeof, Range(Origin(cycles[i]).keys))
            /\ Acyclic(Origin(cycles[i])) => cycles[i].cycle.keys = <<>>
  /\ (pc = "cmdloop" /\ out.kind = "list" /\ Current.keys = <<>>) =>
       (out.objs = {} /\ DOMAIN out.lines = {} /\ locals.keys = <<>>)
  /\ pc # "raised"

\* C17: the pruning loop ends for every cycle; a cycle without a directed cycle
\* ends empty and without an exception, still gets its entry in the ranked
\* list with the size it had before it was simplified, and is listed, when it
\* is selected, as a cycle of no members.
C17_EmptyCycleListed ==
  /\ []EmptyCyclesKept
  /\ (pc = "simplify" /\ phase = "prune") ~> (pc = "simplify" /\ phase = "size")

\* an empty cycle that was reached with next or previous is listed
C17_Witness ==
  /\ pc = "cmdloop"
  /\ selection > 0
  /\ out.kind = "list"
  /\ Current.keys = <<>>
  /\ Origin(cycles[selection + 1]).keys # <<>>
  /\ cycles[selection + 1].size > 1

\* ------------------------------------------------------------- collapse
\* references and attribute tables of a heap of the linked specification
MaxLinks == 5

\* every heap of NumObjects suspects of one byte with up to MaxLinks references
\* and attribute tables, an object having at most one table, which it
\* references
InitLinked ==
  /\ InitProgram
  /\ \E E \in SubsetsUpTo(Objects \X Objects, MaxLinks) :
     \E D \in SubsetsUpTo(E, MaxLinks - Cardinality(E)) :
       /\ \A p \in D, q \in D : p[1] = q[1] => p = q
       /\ HeapIs(Objects, Objects, E, D, [o \in Objects |-> 1])
  /\ tbOf = Untraced(Objects)

SpecLinked == InitLinked /\ [][Next]_vars

\* the member the next iteration of the collapse loop visits
Visited == cycle.keys[pos]

\* the attribute table S of A is referenced by A and by no other member
OwnTable(A, S) ==
  /\ S \in cycle.vals[A]
  /\ \A m \in Range(cycle.keys) \ {A} : S \notin cycle.vals[m]

\* C18: the step of container collapse for a member A changes edge sets exactly
\* when A has an attribute table S that is in the edge set of A and of no other
\* member (S included); then the edge set of A becomes its own without S
\* together with that of S, after which the edge set of S becomes empty, and
\* no other edge set changes.  In every other case no edge set changes.
C18_CollapseStep ==
  [][(pc = "simplify" /\ phase = "collapse") =>
       /\ cycle.keys' = cycle.keys
       /\ IF \E S \in dictOf[Visited] : OwnTable(Visited, S)
            THEN \A S \in dictOf[Visited] :
                   /\ cycle.vals'[S] = {}
                   /\ S # Visited =>
                        cycle.vals'[Visited] = (cycle.vals[Visited] \ {S}) \cup cycle.vals[S]
                   /\ \A m \in Range(cycle.keys) \ {Visited, S} :
                        cycle.vals'[m] = cycle.vals[m]
            ELSE cycle' = cycle]_vars

\* a member with references of its own has taken over the references of its
\* attribute table
C18_Witness ==
  /\ pc = "simplify"
  /\ phase \in {"collapse", "prune"}
  /\ cycle.keys = separated[idx].keys
  /\ \E A \in Range(cycle.keys) : \E S \in dictOf[A] \cap Range(cycle.keys) :
       /\ S # A
       /\ separated[idx].vals[S] # {}
       /\ separated[idx].vals[A] \ {S} # {}
       /\ cycle.vals[S] = {}
       /\ cycle.vals[A] = (separated[idx].vals[A] \ {S}) \cup separated[idx].vals[S]
       /\ cycle.vals[A] # separated[idx].vals[A] \ {S}

\* ------------------------------------------------------------- reachability
\* C19: when a cycle is simplified (container collapse, then pruning to the
\* fixed point), a member that is left reaches another member that is left by
\* a directed path of the simplified cycle exactly when it reached it by a
\* directed path of the cycle as separate returned it.
C19_ReachabilityKept ==
  PruningDone =>
    \A u, v \in Range(cycle.keys) :
      (v \in After(cycle.vals, u)) <=> (v \in After(separated[idx].vals, u))

\* a cycle is simplified in which a member reaches another one only through
\* its attribute table, which is collapsed and removed
C19_Witness ==
  /\ PruningDone
  /\ \E A, X \in Range(cycle.keys) : \E S \in dictOf[A] \ Range(cycle.keys) :
       /\ A # X
       /\ S \in Range(separated[idx].keys)
       /\ X \in cycle.vals[A]
       /\ X \notin separated[idx].vals[A]
       /\ X \in separated[idx].vals[S]

\* ------------------------------------------------------------- closure
\* the keys of c are the members that have an edge set, and every edge set
\* holds members only
Closed(c) ==
  /\ DOMAIN c.vals = Range(c.keys)
  /\ \A m \in Range(c.keys) : c.vals[m] \subseteq Range(c.keys)

\* C20: edge sets are closed at every stage: in the graph that is built every
\* suspect is a key and every referent kept is a suspect; every cycle separate
\* returns, the cycle at hand after every step of collapse and every round of
\* pruning, and every cycle of the ranked list holds in its edge sets none but
\* its own members; every reference listed has the names of two members.
C20_EdgeSetsClosed ==
  /\ (pc = "separate" \/ Separated) =>
       /\ DOMAIN refs = garbage
       /\ \A item \in garbage : refs[item] = referents[item] \cap garbage
  /\ Separated => \A i \in DOMAIN separated : Closed(separated[i])
  /\ (pc = "simplify" /\ phase \in {"collapse", "prune"}) => Closed(cycle)
  /\ \A i \in DOMAIN cycles : Closed(cycles[i].cycle)
  /\ (pc = "cmdloop" /\ out.kind = "list") =>
       \A p \in DOMAIN out.lines :
         {out.lines[p].obj, out.lines[p].ref} \subseteq Range(locals.keys)

\* a cycle with a reference is listed, one of its members has a referent
\* outside the garbage, and a member of some cycle was removed
C20_Witness ==
  /\ pc = "cmdloop"
  /\ out.kind = "list"
  /\ DOMAIN out.lines # {}
  /\ \E o \in Range(Current.keys) : referents[o] \ garbage # {}
  /\ \E v \in Range(cycles) : Len(v.cycle.keys) < Len(Origin(v).keys)

====
